---- MODULE Spec2Model ----
(***************************************************************************)
(* A model of actor.py: the perceptron and neural-network actors, their   *)
(* react_to evaluators and the genome codec (get_genome / from_genome).   *)
(*                                                                         *)
(* Numbers.  Weights and genome values are exact rationals, held as       *)
(* integer numerators over the common denominator One (so 1.0 is One and  *)
(* the code's "+ 1", "* 2", "/ 2" are "+ One", "* 2", "\div 2").  The     *)
(* evaluator works on fixed-point numbers with denominator Unit, since    *)
(* the logistic function has no rational values.                          *)
(*                                                                         *)
(* Objects.  Every numpy array that is kept carries the identity of its   *)
(* storage (base); a copy or an arithmetic result has fresh storage, a    *)
(* reshape or a slice is a view of its operand's storage.                 *)
(***************************************************************************)
EXTENDS Integers, Sequences, FiniteSets, TLC

\* ----------------------------------------------------------------- bounds
\* 1/2 as a numerator: values lie on the grid 0, 1/One, 2/One, ...
Half == 2
One == 2 * Half
\* denominator of the evaluator's fixed-point numbers
Unit == 1000
\* seeds of the random generator
MaxSeed == 2
\* longest genome the optimizer supplies
MaxGenomeLen == 5
MaxVecLen == 4

\* the environments: (observation_space, action_space) pairs
Envs ==
  { [observation_space |-> [shape |-> <<2>>, low |-> <<0, 0>>, high |-> <<2, 4>>],
     action_space |-> [n |-> 2]],
    [observation_space |-> [shape |-> <<1>>, low |-> <<-1>>, high |-> <<1>>],
     action_space |-> [n |-> 3]],
    [observation_space |-> [shape |-> <<1, 2>>, low |-> <<0, -2>>, high |-> <<1, 2>>],
     action_space |-> [n |-> 1]] }

\* the hidden_layers arguments the caller constructs networks with
HiddenChoices == { <<>>, <<1>>, <<2>> }

\* ------------------------------------------------------------ arithmetic
Min(a, b) == IF a < b THEN a ELSE b

RECURSIVE product(_)
product(l) == IF Len(l) = 1 THEN l[1] ELSE product(SubSeq(l, 1, Len(l) - 1)) * l[Len(l)]

RECURSIVE SumTo(_, _)
SumTo(f, n) == IF n = 0 THEN 0 ELSE SumTo(f, n - 1) + f[n]

\* np.random.random: the j-th draw of the generator seeded with seed, in [0, 1)
Random(seed, j) == (seed + (One - 1) * j) % One

\* (np.random.random((out_size, in_size)) * 2) - 1, in storage base
RandomMatrix(out_size, in_size, seed, offset, base) ==
  [shape |-> <<out_size, in_size>>,
   base  |-> base,
   data  |-> [j \in 1..(out_size * in_size) |-> (Random(seed, offset + j) * 2) - One]]

NoMatrix == [shape |-> <<0, 0>>, base |-> 0, data |-> <<>>]

NoActor ==
  [cls |-> "None", oid |-> 0, observation_space |-> [shape |-> <<>>, low |-> <<>>, high |-> <<>>],
   action_space |-> [n |-> 0], n_obs |-> 0, obs_range |-> <<>>, n_act |-> 0,
   perceptron_matrix |-> NoMatrix, layers |-> <<>>]

\* the n smallest storage identities not in used
FreshBases(used, n) ==
  LET free == (1..(Cardinality(used) + n)) \ used
      RECURSIVE Take(_, _)
      Take(S, k) == IF k = 0 THEN <<>>
                    ELSE LET m == CHOOSE x \in S : \A y \in S : x <= y
                         IN  <<m>> \o Take(S \ {m}, k - 1)
  IN  Take(free, n)

\* ---------------------------------------------------------- constructors
ObsRange(observation_space) ==
  [j \in 1..Len(observation_space.high) |->
      observation_space.high[j] - observation_space.low[j]]

\* PerceptronActor.__init__ (GeneticPerceptronActor inherits it)
NewPerceptronActor(observation_space, action_space, seed, oid, bases) ==
  LET n_obs == product(observation_space.shape)
      n_act == action_space.n
  IN  [cls |-> "GeneticPerceptronActor",
       oid |-> oid,
       observation_space |-> observation_space,
       action_space |-> action_space,
       n_obs |-> n_obs,
       obs_range |-> ObsRange(observation_space),
       n_act |-> n_act,
       perceptron_matrix |-> RandomMatrix(n_act, n_obs, seed, 0, bases[1]),
       layers |-> <<>>]

\* LayerSizes with in_size and out_size taken the wrong way round
LayerSizesSwapped(n_obs, hidden_layers, n_act) ==
  LET ins  == <<n_obs>> \o hidden_layers
      outs == hidden_layers \o <<n_act>>
  IN  [l \in 1..Len(ins) |-> [in_size |-> outs[l], out_size |-> ins[l]]]

\* zip([n_obs] + hidden_layers, hidden_layers + [n_act]): the (in_size, out_size) pairs
LayerSizes(n_obs, hidden_layers, n_act) ==
  LET ins  == <<n_obs>> \o hidden_layers
      outs == hidden_layers \o <<n_act>>
  IN  [l \in 1..Len(ins) |-> [in_size |-> ins[l], out_size |-> outs[l]]]

\* the loop of NeuralNetActor.__init__: one random matrix per size pair, drawn in order
RECURSIVE RandomLayers(_, _, _, _, _)
RandomLayers(sizes, l, seed, offset, bases) ==
  IF l > Len(sizes) THEN <<>>
  ELSE <<RandomMatrix(sizes[l].out_size, sizes[l].in_size, seed, offset, bases[l])>>
       \o RandomLayers(sizes, l + 1, seed,
                       offset + sizes[l].out_size * sizes[l].in_size, bases)

\* NeuralNetActor.__init__ (GeneticNNActor inherits it)
NewNNActor(observation_space, action_space, hidden_layers, seed, oid, bases) ==
  LET n_obs == product(observation_space.shape)
      n_act == action_space.n
  IN  [cls |-> "GeneticNNActor",
       oid |-> oid,
       observation_space |-> observation_space,
       action_space |-> action_space,
       n_obs |-> n_obs,
       obs_range |-> ObsRange(observation_space),
       n_act |-> n_act,
       perceptron_matrix |-> NoMatrix,
       layers |-> RandomLayers(LayerSizes(n_obs, hidden_layers, n_act), 1, seed, 0, bases)]

\* --------------------------------------------------------------- react_to
\* obs = observation.copy(); obs -= low; obs /= obs_range; reshape to n_obs
Normalize(self, observation) ==
  [j \in 1..self.n_obs |->
      ((observation[j] - self.observation_space.low[j]) * Unit) \div self.obs_range[j]]

\* matrix.dot(v): weights are numerators over One, v and the result are fixed-point
Dot(matrix, v) ==
  LET in_size == matrix.shape[2]
  IN  [r \in 1..matrix.shape[1] |->
         SumTo([c \in 1..in_size |-> matrix.data[(r - 1) * in_size + c] * v[c]], in_size)
           \div One]

\* e^(y/Unit) for y >= 0, by its power series in fixed point
RECURSIVE ExpSeries(_, _, _, _)
ExpSeries(y, k, term, acc) ==
  IF term = 0 THEN acc
  ELSE ExpSeries(y, k + 1, (term * y) \div (k * Unit), acc + term)

\* np.exp(-y)
ExpNeg(y) ==
  IF y >= 0 THEN (Unit * Unit) \div ExpSeries(y, 1, Unit, 0)
  ELSE ExpSeries(-y, 1, Unit, 0)

\* 1. / (1. + np.exp(-y))
Logistic(y) == (Unit * Unit) \div (Unit + ExpNeg(y))

\* PerceptronScan with "if x >= outputs[i]"
RECURSIVE PerceptronScanLastWins(_, _, _)
PerceptronScanLastWins(outputs, i, j) ==
  IF j >= Len(outputs) THEN i
  ELSE PerceptronScanLastWins(outputs,
                              IF outputs[j + 1] >= outputs[i + 1] THEN j ELSE i, j + 1)

\* i = 0; for j, x in enumerate(outputs): if x > outputs[i]: i = j  (indices from 0)
RECURSIVE PerceptronScan(_, _, _)
PerceptronScan(outputs, i, j) ==
  IF j >= Len(outputs) THEN i
  ELSE PerceptronScan(outputs, IF outputs[j + 1] > outputs[i + 1] THEN j ELSE i, j + 1)

\* NNScan with "if x >= current_vector[i]"
RECURSIVE NNScanLastWins(_, _, _)
NNScanLastWins(current_vector, i, j) ==
  IF j >= Len(current_vector) THEN i
  ELSE NNScanLastWins(current_vector,
                      IF current_vector[j + 1] >= current_vector[i + 1] THEN j ELSE i,
                      j + 1)

\* the same scan, over current_vector
RECURSIVE NNScan(_, _, _)
NNScan(current_vector, i, j) ==
  IF j >= Len(current_vector) THEN i
  ELSE NNScan(current_vector,
              IF current_vector[j + 1] > current_vector[i + 1] THEN j ELSE i, j + 1)

\* PerceptronActor.react_to: the outputs and the index returned
PerceptronOutputs(self, observation) ==
  Dot(self.perceptron_matrix, Normalize(self, observation))

PerceptronReactTo(self, observation) ==
  PerceptronScan(PerceptronOutputs(self, observation), 0, 0)

\* NNLayerStep with the logistic line left out
NNLayerStepRaw(layer, current_vector) ==
  Dot(layer, current_vector)

\* one pass of the loop over self._layers
NNLayerStep(layer, current_vector) ==
  LET v == Dot(layer, current_vector)
  IN  [r \in 1..Len(v) |-> Logistic(v[r])]

RECURSIVE NNForward(_, _, _)
NNForward(layers, l, current_vector) ==
  IF l > Len(layers) THEN current_vector
  ELSE NNForward(layers, l + 1, NNLayerStep(layers[l], current_vector))

\* NeuralNetActor.react_to: the final current_vector and the index returned
NNOutputs(self, observation) ==
  NNForward(self.layers, 1, Normalize(self, observation))

NNReactTo(self, observation) ==
  NNScan(NNOutputs(self, observation), 0, 0)

\* ------------------------------------------------------------------ codec
\* GeneticPerceptronActor.get_genome: the data of the array returned
PerceptronGetGenome(self) ==
  LET flat == self.perceptron_matrix.data
  IN  [j \in 1..(self.n_obs * self.n_act) |-> (flat[j] + One) \div 2]

\* ConcatLayers putting each layer in front of the genome instead of behind it
RECURSIVE ConcatLayersReversed(_, _)
ConcatLayersReversed(layers, l) ==
  IF l > Len(layers) THEN <<>>
  ELSE ConcatLayersReversed(layers, l + 1) \o SubSeq(layers[l].data, 1, product(layers[l].shape))

\* the loop of GeneticNNActor.get_genome
RECURSIVE ConcatLayers(_, _)
ConcatLayers(layers, l) ==
  IF l > Len(layers) THEN <<>>
  ELSE SubSeq(layers[l].data, 1, product(layers[l].shape)) \o ConcatLayers(layers, l + 1)

\* NNGetGenome without the division by 2
NNGetGenomeNotHalved(self) ==
  LET genome == ConcatLayers(self.layers, 1)
  IN  [j \in 1..Len(genome) |-> genome[j] + One]

\* GeneticNNActor.get_genome: the data of the array returned
NNGetGenome(self) ==
  LET genome == ConcatLayers(self.layers, 1)
  IN  [j \in 1..Len(genome) |-> (genome[j] + One) \div 2]

\* PerceptronFromGenome without the "- 1"
PerceptronFromGenomeNotShifted(self, genome, seed, oid, bases) ==
  LET pa    == NewPerceptronActor(self.observation_space, self.action_space, seed, oid,
                                  <<bases[2]>>)
      shape == self.perceptron_matrix.shape
  IN  IF Len(genome) # shape[1] * shape[2]
      THEN [err |-> TRUE, self |-> self, ret |-> NoActor]
      ELSE [err |-> FALSE, self |-> self,
            ret |-> [pa EXCEPT !.perceptron_matrix =
                        [shape |-> shape, base |-> bases[1],
                         data  |-> [j \in 1..Len(genome) |-> 2 * genome[j]]]]]

\* PerceptronFromGenome cutting the genome to size instead of raising
PerceptronFromGenomeTruncating(self, genome, seed, oid, bases) ==
  LET pa    == NewPerceptronActor(self.observation_space, self.action_space, seed, oid,
                                  <<bases[2]>>)
      shape == self.perceptron_matrix.shape
  IN  IF Len(genome) < shape[1] * shape[2]
      THEN [err |-> TRUE, self |-> self, ret |-> NoActor]
      ELSE [err |-> FALSE, self |-> self,
            ret |-> [pa EXCEPT !.perceptron_matrix =
                        [shape |-> shape, base |-> bases[1],
                         data  |-> [j \in 1..(shape[1] * shape[2]) |->
                                       (2 * genome[j]) - One]]]]

\* GeneticPerceptronActor.from_genome: np.reshape raises unless the sizes agree.
\* self is the template as the call leaves it, ret the actor returned.
PerceptronFromGenome(self, genome, seed, oid, bases) ==
  LET pa    == NewPerceptronActor(self.observation_space, self.action_space, seed, oid,
                                  <<bases[2]>>)
      shape == self.perceptron_matrix.shape
  IN  IF Len(genome) # shape[1] * shape[2]
      THEN [err |-> TRUE, self |-> self, ret |-> NoActor]
      ELSE [err |-> FALSE, self |-> self,
            ret |-> [pa EXCEPT !.perceptron_matrix =
                        [shape |-> shape, base |-> bases[1],
                         data  |-> [j \in 1..Len(genome) |-> (2 * genome[j]) - One]]]]

\* genome[start:start+layer_size]: a slice is cut short at the end of the array
Slice(genome, start, stop) ==
  SubSeq(genome, start + 1, Min(stop, Len(genome)))

\* DecodeLayers without "start += layer_size"
RECURSIVE DecodeLayersNotAdvancing(_, _, _, _, _)
DecodeLayersNotAdvancing(layers, l, genome, start, bases) ==
  IF l > Len(layers) THEN [err |-> FALSE, layers |-> <<>>]
  ELSE LET layer_size == product(layers[l].shape)
           piece == SubSeq(genome, start + 1, Min(start + layer_size, Len(genome)))
       IN  IF Len(piece) # layer_size
           THEN [err |-> TRUE, layers |-> <<>>]
           ELSE LET rest == DecodeLayersNotAdvancing(layers, l + 1, genome, start, bases)
                IN  [err |-> rest.err,
                     layers |-> IF rest.err THEN <<>>
                                ELSE <<[shape |-> layers[l].shape, base |-> bases[l],
                                        data |-> piece]>> \o rest.layers]

\* the loop of GeneticNNActor.from_genome over self._layers
RECURSIVE DecodeLayers(_, _, _, _, _)
DecodeLayers(layers, l, genome, start, bases) ==
  IF l > Len(layers) THEN [err |-> FALSE, layers |-> <<>>]
  ELSE LET layer_size == product(layers[l].shape)
           piece == Slice(genome, start, start + layer_size)
       IN  IF Len(piece) # layer_size
           THEN [err |-> TRUE, layers |-> <<>>]
           ELSE LET rest == DecodeLayers(layers, l + 1, genome, start + layer_size, bases)
                IN  [err |-> rest.err,
                     layers |-> IF rest.err THEN <<>>
                                ELSE <<[shape |-> layers[l].shape, base |-> bases[l],
                                        data |-> piece]>> \o rest.layers]

\* NNFromGenome filling in and returning the template itself (nna = self)
NNFromGenomeInPlace(self, genome, seed, oid, bases) ==
  LET scaled == [j \in 1..Len(genome) |-> (genome[j] * 2) - One]
      dec    == DecodeLayers(self.layers, 1, scaled, 0, bases)
  IN  IF dec.err
      THEN [err |-> TRUE, self |-> self, ret |-> NoActor]
      ELSE [err |-> FALSE, self |-> [self EXCEPT !.layers = dec.layers],
            ret |-> [self EXCEPT !.layers = dec.layers]]

\* GeneticNNActor.from_genome
NNFromGenome(self, genome, seed, oid, bases) ==
  LET scaled == [j \in 1..Len(genome) |-> (genome[j] * 2) - One]
      nna    == NewNNActor(self.observation_space, self.action_space, <<>>, seed, oid,
                           <<bases[Len(self.layers) + 1]>>)
      dec    == DecodeLayers(self.layers, 1, scaled, 0, bases)
  IN  IF dec.err
      THEN [err |-> TRUE, self |-> self, ret |-> NoActor]
      ELSE [err |-> FALSE, self |-> self, ret |-> [nna EXCEPT !.layers = dec.layers]]

\* ------------------------------------------------------------------ state
\* The caller runs one round of an evolutionary step: it constructs an actor,
\* obtains a genome (the actor's own, another actor's, or one the optimizer made
\* up), decodes it into a child with from_genome, encodes the child again and
\* decodes that into a grandchild; at some point it lets one of the actors react
\* to an observation.
VARIABLES
  env,         \* the environment: the spaces every actor is constructed for
  parent,      \* the actor constructed
  hidden,      \* the hidden_layers argument it was constructed with
  genome,      \* the genome obtained, and where it came from
  child,       \* parent.from_genome(genome): the call's outcome
  genome2,     \* child.get_genome()
  grandchild,  \* child.from_genome(genome2): the call's outcome
  reaction     \* the react_to call and what it returned

vars == <<env, parent, hidden, genome, child, genome2, grandchild, reaction>>

\* src: the actor the genome was encoded from (0: none), src_shapes: its shapes
NoGenome == [held |-> FALSE, base |-> 0, data |-> <<>>, src |-> 0, src_shapes |-> <<>>]

NoCall == [called |-> FALSE, err |-> FALSE, ret |-> NoActor]

NoReaction == [who |-> "none", obs |-> <<>>, vec |-> <<>>, idx |-> 0]

MatricesOf(a) ==
  IF a.cls = "GeneticPerceptronActor" THEN <<a.perceptron_matrix>>
  ELSE IF a.cls = "GeneticNNActor" THEN a.layers
  ELSE <<>>

ShapesOf(a) == [l \in 1..Len(MatricesOf(a)) |-> MatricesOf(a)[l].shape]

BasesOf(a) == { MatricesOf(a)[l].base : l \in 1..Len(MatricesOf(a)) }

\* the storage of every array that is still referenced
UsedBases ==
  BasesOf(parent) \cup BasesOf(child.ret) \cup BasesOf(grandchild.ret)
    \cup (IF genome.held THEN {genome.base} ELSE {})
    \cup (IF genome2.held THEN {genome2.base} ELSE {})

\* the identities of the actors that are referenced, or remembered as a source
UsedOids == {parent.oid, child.ret.oid, grandchild.ret.oid, genome.src} \ {0}

FreshOid == FreshBases(UsedOids, 1)[1]

\* the observations the environment produces: each element its low, middle or high
Observations ==
  LET os == env.observation_space
      n  == Len(os.low)
  IN  { o \in [1..n -> UNION { os.low[j]..os.high[j] : j \in 1..n }] :
          \A j \in 1..n : o[j] \in {os.low[j], (os.low[j] + os.high[j]) \div 2, os.high[j]} }

\* the genomes the optimizer makes up: ramps over the grid of [0, 1]
Ramp(len, first) == [j \in 1..len |-> (first + j - 1) % (One + 1)]

GetGenomeOf(a) ==
  IF a.cls = "GeneticPerceptronActor" THEN PerceptronGetGenome(a) ELSE NNGetGenome(a)

FromGenomeOf(a, g, seed, oid, bases) ==
  IF a.cls = "GeneticPerceptronActor"
  THEN PerceptronFromGenome(a, g, seed, oid, bases)
  ELSE NNFromGenome(a, g, seed, oid, bases)

Init ==
  /\ env \in Envs
  /\ parent = NoActor
  /\ hidden = <<>>
  /\ genome = NoGenome
  /\ child = NoCall
  /\ genome2 = NoGenome
  /\ grandchild = NoCall
  /\ reaction = NoReaction

\* parent = GeneticPerceptronActor(observation_space, action_space)
ConstructPerceptron(seed) ==
  /\ parent = NoActor
  /\ parent' = NewPerceptronActor(env.observation_space, env.action_space, seed,
                                  FreshOid, FreshBases(UsedBases, 1))
  /\ UNCHANGED <<env, hidden, genome, child, genome2, grandchild, reaction>>

\* parent = GeneticNNActor(observation_space, action_space, hidden_layers)
ConstructNN(hidden_layers, seed) ==
  /\ parent = NoActor
  /\ parent' = NewNNActor(env.observation_space, env.action_space, hidden_layers, seed,
                          FreshOid, FreshBases(UsedBases, Len(hidden_layers) + 1))
  /\ hidden' = hidden_layers
  /\ UNCHANGED <<env, genome, child, genome2, grandchild, reaction>>

\* genome = parent.get_genome()
GetGenome ==
  /\ parent # NoActor
  /\ ~genome.held
  /\ genome' = [held |-> TRUE, base |-> FreshBases(UsedBases, 1)[1],
                data |-> GetGenomeOf(parent),
                src |-> parent.oid, src_shapes |-> ShapesOf(parent)]
  /\ UNCHANGED <<env, parent, hidden, child, genome2, grandchild, reaction>>

\* genome = B.get_genome() of another actor B, constructed for it and dropped
GetGenomeOfAnother(perceptron, hidden_layers, seed) ==
  /\ parent # NoActor
  /\ ~genome.held
  /\ LET oid == FreshOid
         B   == IF perceptron
                THEN NewPerceptronActor(env.observation_space, env.action_space, seed,
                                        oid, FreshBases(UsedBases, 1))
                ELSE NewNNActor(env.observation_space, env.action_space, hidden_layers,
                                seed, oid, FreshBases(UsedBases, Len(hidden_layers) + 1))
     IN  genome' = [held |-> TRUE, base |-> FreshBases(UsedBases, 1)[1],
                    data |-> GetGenomeOf(B),
                    src |-> oid, src_shapes |-> ShapesOf(B)]
  /\ UNCHANGED <<env, parent, hidden, child, genome2, grandchild, reaction>>

\* the optimizer hands the caller a genome of its own making
SupplyGenome(len, first) ==
  /\ parent # NoActor
  /\ ~genome.held
  /\ genome' = [held |-> TRUE, base |-> FreshBases(UsedBases, 1)[1],
                data |-> Ramp(len, first), src |-> 0, src_shapes |-> <<>>]
  /\ UNCHANGED <<env, parent, hidden, child, genome2, grandchild, reaction>>

\* child = parent.from_genome(genome): the actor returned, or the error raised
FromGenome(seed) ==
  /\ genome.held
  /\ ~child.called
  /\ LET res == FromGenomeOf(parent, genome.data, seed, FreshOid,
                             FreshBases(UsedBases, Len(MatricesOf(parent)) + 1))
     IN  /\ parent' = res.self
         /\ child' = [called |-> TRUE, err |-> res.err, ret |-> res.ret]
  /\ UNCHANGED <<env, hidden, genome, genome2, grandchild, reaction>>

\* genome2 = child.get_genome()
GetGenome2 ==
  /\ child.called
  /\ ~child.err
  /\ ~genome2.held
  /\ genome2' = [held |-> TRUE, base |-> FreshBases(UsedBases, 1)[1],
                 data |-> GetGenomeOf(child.ret),
                 src |-> child.ret.oid, src_shapes |-> ShapesOf(child.ret)]
  /\ UNCHANGED <<env, parent, hidden, genome, child, grandchild, reaction>>

\* grandchild = child.from_genome(genome2)
FromGenome2(seed) ==
  /\ genome2.held
  /\ ~grandchild.called
  /\ LET res == FromGenomeOf(child.ret, genome2.data, seed, FreshOid,
                             FreshBases(UsedBases, Len(MatricesOf(child.ret)) + 1))
     IN  /\ child' = [child EXCEPT !.ret = res.self]
         /\ grandchild' = [called |-> TRUE, err |-> res.err, ret |-> res.ret]
  /\ UNCHANGED <<env, parent, hidden, genome, genome2, reaction>>

ActorNamed(who) ==
  IF who = "parent" THEN parent
  ELSE IF who = "child" THEN child.ret
  ELSE grandchild.ret

\* who.react_to(observation)
ReactTo(who, observation) ==
  /\ reaction = NoReaction
  /\ ActorNamed(who) # NoActor
  /\ LET self == ActorNamed(who)
     IN  reaction' =
           IF self.cls = "GeneticPerceptronActor"
           THEN [who |-> who, obs |-> observation,
                 vec |-> PerceptronOutputs(self, observation),
                 idx |-> PerceptronReactTo(self, observation)]
           ELSE [who |-> who, obs |-> observation,
                 vec |-> NNOutputs(self, observation),
                 idx |-> NNReactTo(self, observation)]
  /\ UNCHANGED <<env, parent, hidden, genome, child, genome2, grandchild>>

Next ==
  \/ \E seed \in 1..MaxSeed : ConstructPerceptron(seed)
  \/ \E hidden_layers \in HiddenChoices, seed \in 1..MaxSeed :
        ConstructNN(hidden_layers, seed)
  \/ GetGenome
  \/ \E perceptron \in BOOLEAN, hidden_layers \in HiddenChoices, seed \in 1..MaxSeed :
        GetGenomeOfAnother(perceptron, hidden_layers, seed)
  \/ \E len \in 0..MaxGenomeLen, first \in {0, Half, One} : SupplyGenome(len, first)
  \/ \E seed \in 1..MaxSeed : FromGenome(seed)
  \/ GetGenome2
  \/ \E seed \in 1..MaxSeed : FromGenome2(seed)
  \/ \E who \in {"parent", "child", "grandchild"}, observation \in Observations :
        ReactTo(who, observation)

Spec == Init /\ [][Next]_vars

\* ------------------------------------------------- the index scan on its own
\* the values an output vector is made of here: 0.2, 0.5 and 0.9
Samples == { Unit \div 5, Unit \div 2, (9 * Unit) \div 10 }

\* outputs (line 44) or the final current_vector (line 73): any non-empty vector
InitArgmax ==
  /\ env \in Envs
  /\ parent = NoActor
  /\ hidden = <<>>
  /\ genome = NoGenome
  /\ child = NoCall
  /\ genome2 = NoGenome
  /\ grandchild = NoCall
  /\ \E n \in 1..MaxVecLen : \E v \in [1..n -> Samples] :
        reaction = [who |-> "pending", obs |-> <<>>, vec |-> v, idx |-> 0]

\* lines 45-49 of PerceptronActor.react_to
PerceptronArgmax ==
  /\ reaction.who = "pending"
  /\ reaction' = [reaction EXCEPT !.who = "PerceptronActor",
                                  !.idx = PerceptronScan(reaction.vec, 0, 0)]
  /\ UNCHANGED <<env, parent, hidden, genome, child, genome2, grandchild>>

\* lines 74-78 of NeuralNetActor.react_to
NNArgmax ==
  /\ reaction.who = "pending"
  /\ reaction' = [reaction EXCEPT !.who = "NeuralNetActor",
                                  !.idx = NNScan(reaction.vec, 0, 0)]
  /\ UNCHANGED <<env, parent, hidden, genome, child, genome2, grandchild>>

NextArgmax ==
  \/ PerceptronArgmax
  \/ NNArgmax

SpecArgmax == InitArgmax /\ [][NextArgmax]_vars

\* ----------------------------------------------------------------- claims
\* what the claims speak of, stated from the shapes alone
OutSize(shape) == shape[1]
InSize(shape) == shape[2]

\* the total parameter count of an actor: the sum of out_size * in_size
ParamCount(a) ==
  LET sh == ShapesOf(a)
  IN  SumTo([l \in 1..Len(sh) |-> OutSize(sh[l]) * InSize(sh[l])], Len(sh))

\* entry (r, c) of a matrix kept in row-major order, r and c from 0
Entry(m, r, c) == m.data[r * InSize(m.shape) + c + 1]

SameWeights(a, b) ==
  /\ ShapesOf(a) = ShapesOf(b)
  /\ \A l \in 1..Len(MatricesOf(a)) :
        \A r \in 0..(OutSize(ShapesOf(a)[l]) - 1), c \in 0..(InSize(ShapesOf(a)[l]) - 1) :
           Entry(MatricesOf(a)[l], r, c) = Entry(MatricesOf(b)[l], r, c)

ExistingActors == {parent, child.ret, grandchild.ret} \ {NoActor}

\* C1: decode after encode is the identity. For a freshly constructed actor C,
\* C.from_genome(C.get_genome()) returns an actor of C's class whose matrices have
\* C's shapes and C's entries (the arithmetic is exact).
C1_DecodeEncode ==
  (child.called /\ genome.src = parent.oid) =>
     /\ ~child.err
     /\ child.ret.cls = parent.cls
     /\ SameWeights(child.ret, parent)

C1_Witness ==
  /\ child.called
  /\ genome.src = parent.oid
  /\ parent.cls = "GeneticNNActor"
  /\ Len(parent.layers) = 2
  /\ \E j \in 1..Len(genome.data) : genome.data[j] # genome.data[1]

\* C2: encode after decode is the identity. For a template T and a genome g whose
\* length is T's parameter count k, T.from_genome(g).get_genome() has length k and
\* equals g element by element, in order.
C2_EncodeDecode ==
  (genome2.held /\ Len(genome.data) = ParamCount(parent)) =>
     /\ Len(genome2.data) = ParamCount(parent)
     /\ \A j \in 1..Len(genome.data) : genome2.data[j] = genome.data[j]

C2_Witness ==
  /\ genome2.held
  /\ Len(genome.data) = ParamCount(parent)
  /\ genome.src = 0
  /\ parent.cls = "GeneticNNActor"
  /\ Len(parent.layers) = 2
  /\ \E j \in 1..Len(genome.data) : genome.data[j] = One
  /\ \E j \in 1..Len(genome.data) : genome.data[j] = 0

\* C4: the range invariant. Every genome handed to from_genome has its elements in
\* [0, 1]; every weight of every actor lies in [-1, 1] and every element of every
\* genome get_genome returns lies in [0, 1].
C4_Range ==
  /\ \A a \in ExistingActors : \A l \in 1..Len(MatricesOf(a)) :
        \A j \in 1..Len(MatricesOf(a)[l].data) :
           /\ MatricesOf(a)[l].data[j] >= -One
           /\ MatricesOf(a)[l].data[j] <= One
  /\ \A g \in {genome, genome2} : \A j \in 1..Len(g.data) :
        /\ g.data[j] >= 0
        /\ g.data[j] <= One

C4_Witness ==
  /\ genome2.held
  /\ genome.src = 0
  /\ \E j \in 1..Len(genome2.data) : genome2.data[j] = One
  /\ \E j \in 1..Len(genome2.data) : genome2.data[j] = 0
  /\ \E l \in 1..Len(MatricesOf(child.ret)) : \E j \in 1..Len(MatricesOf(child.ret)[l].data) :
        MatricesOf(child.ret)[l].data[j] = One
  /\ \E l \in 1..Len(MatricesOf(parent)) : \E j \in 1..Len(MatricesOf(parent)[l].data) :
        MatricesOf(parent)[l].data[j] = -One

\* the shapes (h_1, n_obs), (h_2, h_1), ..., (n_act, h_k) of hidden_layers h_1..h_k
ChainShapes(n_obs, hs, n_act) ==
  [l \in 1..(Len(hs) + 1) |->
     << IF l = Len(hs) + 1 THEN n_act ELSE hs[l],
        IF l = 1 THEN n_obs ELSE hs[l - 1] >>]

FlatObsSize == Len(env.observation_space.low)

\* C5: the layer-shape invariant. A network built with hidden_layers h_1..h_k has
\* exactly k+1 matrices of shapes (h_1, n_obs), ..., (n_act, h_k), each in_size the
\* previous out_size; every actor obtained from it by from_genome has the same
\* shapes, and get_genome's length is the sum of out_size * in_size.
C5_Shapes ==
  parent.cls = "GeneticNNActor" =>
     /\ Len(parent.layers) = Len(hidden) + 1
     /\ ShapesOf(parent) = ChainShapes(FlatObsSize, hidden, env.action_space.n)
     /\ \A l \in 2..Len(parent.layers) :
           InSize(ShapesOf(parent)[l]) = OutSize(ShapesOf(parent)[l - 1])
     /\ \A a \in ExistingActors : ShapesOf(a) = ShapesOf(parent)
     /\ (genome.held /\ genome.src = parent.oid) =>
           Len(genome.data) = ParamCount(parent)
     /\ genome2.held => Len(genome2.data) = ParamCount(parent)

C5_Witness ==
  /\ parent.cls = "GeneticNNActor"
  /\ hidden = <<2>>
  /\ grandchild.called
  /\ ~grandchild.err
  /\ genome.src # parent.oid
  /\ ShapesOf(grandchild.ret) = << <<2, 2>>, <<2, 2>> >>
  /\ Len(genome2.data) = 8

ReactOf(a, observation) ==
  IF a.cls = "GeneticPerceptronActor" THEN PerceptronReactTo(a, observation)
  ELSE NNReactTo(a, observation)

\* ret is a new instance: no actor of others is the same object or shares storage
\* with it, and it shares none with the genome g
NewInstance(ret, others, g) ==
  /\ ret.oid # 0
  /\ \A a \in others : ret.oid # a.oid /\ BasesOf(ret) \cap BasesOf(a) = {}
  /\ g.base \notin BasesOf(ret)

\* C3: from_genome never writes its template. No call changes an existing actor;
\* from_genome returns a new instance that shares no storage with the template or
\* with the genome, and the template reacts to every observation as before.
C3_Frame ==
  [][ /\ parent # NoActor => parent' = parent
      /\ child.ret # NoActor => child'.ret = child.ret
      /\ grandchild.ret # NoActor => grandchild'.ret = grandchild.ret
      /\ (~child.called /\ child'.called /\ ~child'.err) =>
            /\ NewInstance(child'.ret, {parent}, genome)
            /\ \A o \in Observations : ReactOf(parent', o) = ReactOf(parent, o)
      /\ (~grandchild.called /\ grandchild'.called /\ ~grandchild'.err) =>
            /\ NewInstance(grandchild'.ret, {parent, child.ret}, genome2)
            /\ \A o \in Observations : ReactOf(child'.ret, o) = ReactOf(child.ret, o)
    ]_vars

C3_Witness ==
  /\ child.called
  /\ ~child.err
  /\ genome.src \notin {0, parent.oid}
  /\ genome.src_shapes = ShapesOf(parent)
  /\ ~SameWeights(child.ret, parent)
  /\ \E o \in Observations : ReactOf(child.ret, o) # ReactOf(parent, o)

\* the offset s_l of layer l in the genome: the sizes of the layers before it
Offset(sh, l) == SumTo([t \in 1..(l - 1) |-> OutSize(sh[t]) * InSize(sh[t])], l - 1)

\* the places (l, r, c) of the weights of shapes sh
Places(sh) ==
  UNION { { <<l, r, c>> : r \in 0..(OutSize(sh[l]) - 1), c \in 0..(InSize(sh[l]) - 1) } :
          l \in 1..Len(sh) }

GenomeIndex(sh, pl) == Offset(sh, pl[1]) + pl[2] * InSize(sh[pl[1]]) + pl[3]

\* the actor a holds the decoded genome g: entry (r, c) of matrix l is
\* 2 * g[s_l + r * i_l + c] - 1  (g indexed from 0)
DecodedFrom(a, sh, g) ==
  /\ ShapesOf(a) = sh
  /\ \A pl \in Places(sh) :
        Entry(MatricesOf(a)[pl[1]], pl[2], pl[3]) = 2 * g[GenomeIndex(sh, pl) + 1] - One

\* C8: network decode gives consecutive, disjoint genome segments to the layers, by
\* the template's shapes alone: for a genome of the template's parameter count the
\* result has the template's shapes, entry (r, c) of matrix l is 2*g[s_l + r*i_l + c] - 1,
\* and every element of g is used exactly once, wherever the genome came from.
C8_Layout ==
  (child.called /\ parent.cls = "GeneticNNActor"
     /\ Len(genome.data) = ParamCount(parent)) =>
     LET sh == ShapesOf(parent)
     IN  /\ ~child.err
         /\ DecodedFrom(child.ret, sh, genome.data)
         /\ Cardinality(Places(sh)) = Len(genome.data)
         /\ { GenomeIndex(sh, pl) : pl \in Places(sh) } = 0..(Len(genome.data) - 1)

C8_Witness ==
  /\ child.called
  /\ ~child.err
  /\ parent.cls = "GeneticNNActor"
  /\ Len(parent.layers) = 2
  /\ Len(genome.data) = ParamCount(parent)
  /\ genome.src \notin {0, parent.oid}
  /\ genome.src_shapes # ShapesOf(parent)
  /\ \E j \in 1..Len(genome.data) : genome.data[j] # genome.data[1]

\* C9: wrong-length genomes. With k the template's parameter count, the perceptron's
\* from_genome returns an actor iff len(g) = k, the network's iff len(g) >= k, and
\* then decodes the first k elements only; otherwise the call raises, returns no
\* actor and leaves the template as it was.
C9_WrongLength ==
  [][ (~child.called /\ child'.called) =>
        LET k == ParamCount(parent)
            n == Len(genome.data)
        IN  /\ parent.cls = "GeneticPerceptronActor" => (~child'.err <=> n = k)
            /\ parent.cls = "GeneticNNActor" => (~child'.err <=> n >= k)
            /\ (parent.cls = "GeneticNNActor" /\ n > k) =>
                  DecodedFrom(child'.ret, ShapesOf(parent), SubSeq(genome.data, 1, k))
            /\ child'.err => (child'.ret = NoActor /\ parent' = parent)
    ]_vars

C9_Witness ==
  /\ child.called
  /\ ~child.err
  /\ parent.cls = "GeneticNNActor"
  /\ Len(parent.layers) = 2
  /\ Len(genome.data) > ParamCount(parent)
  /\ genome.data[Len(genome.data)] # 0

\* i is the smallest index (from 0) that no element of v is strictly greater than
FirstMaximal(v, i) ==
  /\ i \in 0..(Len(v) - 1)
  /\ \A j \in 1..Len(v) : ~(v[j] > v[i + 1])
  /\ \A h \in 0..(i - 1) : \E j \in 1..Len(v) : v[j] > v[h + 1]

\* C6: argmax with first-wins tie-break. For every non-empty output vector v,
\* react_to of both actors returns the smallest index i such that no v[j] is
\* strictly greater than v[i]; for [0.5, 0.9, 0.9, 0.2] it returns 1, not 2.
C6_Argmax ==
  reaction.who \in {"PerceptronActor", "NeuralNetActor"} =>
     FirstMaximal(reaction.vec, reaction.idx)

C6_Witness ==
  /\ reaction.who = "NeuralNetActor"
  /\ reaction.vec = << Unit \div 2, (9 * Unit) \div 10, (9 * Unit) \div 10, Unit \div 5 >>
  /\ reaction.idx = 1

\* W . v for a weight matrix W (numerators over One) and a fixed-point vector v
MatVec(m, v) ==
  [r \in 1..OutSize(m.shape) |->
     SumTo([c \in 1..InSize(m.shape) |-> Entry(m, r - 1, c - 1) * v[c]], InSize(m.shape))
       \div One]

Sigma(v) == [r \in 1..Len(v) |-> Logistic(v[r])]

\* sigma(W_n . sigma(W_(n-1) . ... sigma(W_1 . x)))
RECURSIVE Squashed(_, _, _)
Squashed(ms, n, x) ==
  IF n = 0 THEN x ELSE Sigma(MatVec(ms[n], Squashed(ms, n - 1, x)))

\* (obs - low) / (high - low), flattened
Normalized(a, o) ==
  [j \in 1..FlatObsSize |->
     ((o[j] - a.observation_space.low[j]) * Unit)
        \div (a.observation_space.high[j] - a.observation_space.low[j])]

Reacting == ActorNamed(reaction.who)

\* C7: evaluator policies. The network folds over its matrices in forward order,
\* squashing after every matrix, the last one and a single one included, and takes
\* the argmax of the final squashed vector; the perceptron takes the argmax of the
\* raw product W . x. Both start from the normalized, flattened observation.
C7_Policies ==
  reaction.who \in {"parent", "child", "grandchild"} =>
     LET a == Reacting
         x == Normalized(a, reaction.obs)
     IN  /\ a.cls = "GeneticNNActor" =>
               reaction.vec = Squashed(a.layers, Len(a.layers), x)
         /\ a.cls = "GeneticPerceptronActor" =>
               reaction.vec = MatVec(a.perceptron_matrix, x)
         /\ FirstMaximal(reaction.vec, reaction.idx)

C7_Witness ==
  /\ reaction.who \in {"parent", "child", "grandchild"}
  /\ Reacting.cls = "GeneticNNActor"
  /\ hidden = <<2>>
  /\ Len(Reacting.layers) = 2
  /\ reaction.idx # 0
  /\ \E r \in 1..Len(reaction.vec) : reaction.vec[r] # reaction.vec[1]

\* the squashing function is strictly increasing on the values of v
IncreasingOn(v) ==
  \A p, q \in 1..Len(v) : v[p] < v[q] => Logistic(v[p]) < Logistic(v[q])

\* C10: a network with hidden_layers = [] whose only layer is W and a perceptron
\* whose matrix is W return the same action for every observation, provided the
\* squashing function is strictly increasing on the values of W . x.
C10_SingleLayer ==
  reaction.who \in {"parent", "child", "grandchild"} =>
     LET a == Reacting
         x == Normalized(a, reaction.obs)
     IN  /\ (a.cls = "GeneticNNActor" /\ Len(a.layers) = 1
               /\ IncreasingOn(MatVec(a.layers[1], x))) =>
               reaction.idx =
                 PerceptronReactTo([a EXCEPT !.perceptron_matrix = a.layers[1]],
                                   reaction.obs)
         /\ (a.cls = "GeneticPerceptronActor"
               /\ IncreasingOn(MatVec(a.perceptron_matrix, x))) =>
               reaction.idx =
                 NNReactTo([a EXCEPT !.layers = <<a.perceptron_matrix>>], reaction.obs)

C10_Witness ==
  /\ reaction.who \in {"parent", "child", "grandchild"}
  /\ Reacting.cls = "GeneticNNActor"
  /\ Len(Reacting.layers) = 1
  /\ IncreasingOn(MatVec(Reacting.layers[1], Normalized(Reacting, reaction.obs)))
  /\ reaction.idx # 0
  /\ \E p, q \in 1..Len(reaction.vec) :
        MatVec(Reacting.layers[1], Normalized(Reacting, reaction.obs))[p] <
          MatVec(Reacting.layers[1], Normalized(Reacting, reaction.obs))[q]

====
